---- MODULE Spec2Model ----
(***************************************************************************)
(* Verification model of the reddit-search CLI (reddit-search.ts) and its  *)
(* API layer (lib/api.ts): token lifecycle, request pacing, cache lookups, *)
(* cache keys, comment-tree and post mapping, response shapes, the list    *)
(* helpers sortBy and dedupe, and the watchlist file.                      *)
(*                                                                         *)
(* Strings are sequences of one-character strings, so that concatenation   *)
(* (template literals) and parseInt are computed character by character.   *)
(* Time is in milliseconds, as returned by Date.now().                     *)
(***************************************************************************)
EXTENDS Integers, Sequences, FiniteSets, TLC

VARIABLES
    now,          \* Date.now()
    runs,         \* number of processes started so far
    pc,           \* position of the running process ("idle": none running)
    args,         \* process.argv.slice(2) of the running process
    env,          \* set of credential variables present in process.env
    accessToken,  \* lib/api.ts module state
    tokenExpiry,  \* lib/api.ts module state
    cacheDir,     \* on-disk cache: key -> [storedAt, value]
    watchlist,    \* data/watchlist.json: sequence of usernames
    stage,        \* which apiGet call is in progress
    idx,          \* loop index of watchlist check
    tokenOut,     \* value the last getToken() call resolved to
    served,       \* where it came from: "cache" or "auth"
    authResp,     \* last response of the token endpoint
    body,         \* body of the last successful data response
    authCalls,    \* auth HTTP requests issued by this process
    dataCalls,    \* data HTTP requests issued by this process
    lastDone,     \* completion time of the last data request of this process
    lastStatus,   \* its HTTP status class
    consulted,    \* whether this process has called cache.get
    wasFresh,     \* whether the same command succeeded less than its TTL ago
    okAt,         \* command identity -> time of its last successful completion
    reported,     \* count printed by the last "cache clear"
    error,        \* the Error thrown and not yet caught
    response,     \* the non-success HTTP response it was built from
    attempts,     \* usernames api.profile was called for by watchlist check
    inflight,     \* HTTP requests issued and not yet answered
    got,          \* result of the last cache.get
    lastSet,      \* key -> [value, at] of the last cache.set since the last clear
    inv1, inv2,   \* two command invocations whose cache keys are compared
    key1, key2,   \* their cache keys
    raw,          \* raw comment listing children of a thread response
    comments,     \* result of mapping them
    first,        \* children of the post listing of a thread response
    post,         \* result of mapping the first of them
    resp,         \* parsed JSON body handed to an operation by apiGet
    result,       \* what the operation returned, or the error it threw
    posts,        \* the Post[] a list helper is called with, as the caller sees it
    given,        \* its contents when the call was made
    metric,       \* the metric argument of sortBy
    out,          \* what the list helper returned
    file,         \* data/watchlist.json during a series of add / remove commands
    edit          \* the last of these commands

vars == <<now, runs, pc, args, env, accessToken, tokenExpiry, cacheDir, watchlist,
          stage, idx, tokenOut, served, authResp, body, authCalls, dataCalls, lastDone,
          lastStatus, consulted, wasFresh, okAt, reported, error, response, attempts,
          inflight, got, lastSet, inv1, inv2,
          key1, key2, raw, comments, first, post, resp, result,
          posts, given, metric, out, file, edit>>

procVars == <<runs, pc, args, env, accessToken, tokenExpiry, cacheDir, watchlist,
              stage, idx, tokenOut, served, authResp, body, authCalls, dataCalls, lastDone,
              lastStatus, consulted, wasFresh, okAt, reported, error, response,
              attempts, inflight, now>>

callVars == <<error, response, attempts>>

storeVars == <<got, lastSet>>

keyVars == <<inv1, inv2, key1, key2>>

treeVars == <<raw, comments, first, post>>

shapeVars == <<resp, result>>

listVars == <<posts, given, metric, out>>

watchVars == <<file, edit>>

-----------------------------------------------------------------------------
(* Bounds of the model *)

MaxRuns == 2

MaxTime == 1100000

MaxNodes == 4

MaxKeyLen == 2

MaxPosts == 3

MaxEntries == 4

-----------------------------------------------------------------------------
(* Strings *)

Undefined == <<"undefined">>

NaN == -1

Falsy(s) == s = Undefined \/ s = <<>>

Digits == <<"0", "1", "2", "3", "4", "5", "6", "7", "8", "9">>

IsDigit(c) == \E i \in 1..10 : Digits[i] = c

DigitVal(c) == (CHOOSE i \in 1..10 : Digits[i] = c) - 1

RECURSIVE LeadingDigits(_)
LeadingDigits(s) ==
    IF s = <<>> \/ ~IsDigit(Head(s)) THEN <<>>
    ELSE <<Head(s)>> \o LeadingDigits(Tail(s))

RECURSIVE DigitsToInt(_, _)
DigitsToInt(s, acc) ==
    IF s = <<>> THEN acc ELSE DigitsToInt(Tail(s), acc * 10 + DigitVal(Head(s)))

parseInt(s) ==
    IF LeadingDigits(s) = <<>> THEN NaN ELSE DigitsToInt(LeadingDigits(s), 0)

RECURSIVE NatToString(_)
NatToString(n) ==
    IF n < 10 THEN <<Digits[n + 1]>>
    ELSE NatToString(n \div 10) \o <<Digits[(n % 10) + 1]>>

NumToString(n) == IF n = NaN THEN <<"N", "a", "N">> ELSE NatToString(n)

-----------------------------------------------------------------------------
(* JSON values of a response body, tagged by their JavaScript type *)

JUndef == [t |-> "undefined"]

JNull == [t |-> "null"]

JStr(s) == [t |-> "string", v |-> s]

JNum(n) == [t |-> "number", v |-> n]

JBool(b) == [t |-> "boolean", v |-> b]

JObj(r) == [t |-> "object", v |-> r]

JArr(s) == [t |-> "array", v |-> s]

\* ToBoolean(x)
Truthy(x) ==
    CASE x.t \in {"undefined", "null"} -> FALSE
      [] x.t = "string" -> x.v # ""
      [] x.t = "number" -> x.v # 0
      [] x.t = "boolean" -> x.v
      [] OTHER -> TRUE

\* x || d
OrElse(x, d) == IF Truthy(x) THEN x ELSE d

\* reading a property of undefined or null throws a TypeError
Nullish(x) == x.t \in {"undefined", "null"}

\* o.name, for o not nullish
Field(o, name) ==
    IF o.t = "object" /\ name \in DOMAIN o.v THEN o.v[name] ELSE JUndef

\* `${x}` for the values a permalink takes
ToStr(x) ==
    CASE x.t = "string" -> x.v
      [] x.t = "undefined" -> "undefined"
      [] x.t = "null" -> "null"

TypeError == [t |-> "TypeError"]

NoPost == [t |-> "none"]

NoBody == [t |-> "none"]

NoResult == [t |-> "none"]

\* mutant of postData: the Thing wrapper is not unwrapped
postDataNoUnwrap(r) == r

\* const d = raw.data || raw
postData(r) == OrElse(Field(r, "data"), r)

parsePost(r) ==
    IF Nullish(r) THEN TypeError
    ELSE LET d == postData(r)
         IN  [id |-> Field(d, "id"),
              title |-> OrElse(Field(d, "title"), JStr("")),
              selftext |-> OrElse(Field(d, "selftext"), JStr("")),
              author |-> OrElse(Field(d, "author"), JStr("[deleted]")),
              subreddit |-> Field(d, "subreddit"),
              created_utc |-> Field(d, "created_utc"),
              url |-> OrElse(Field(d, "url"), JStr("")),
              permalink |-> Field(d, "permalink"),
              upvotes |-> OrElse(Field(d, "ups"), JNum(0)),
              num_comments |-> OrElse(Field(d, "num_comments"), JNum(0)),
              score |-> OrElse(Field(d, "score"), JNum(0)),
              over_18 |-> OrElse(Field(d, "over_18"), JBool(FALSE)),
              post_url |-> JStr("https://reddit.com" \o ToStr(Field(d, "permalink")))]

-----------------------------------------------------------------------------
(* Program constants *)

RATE_DELAY_MS == 600

TOKEN_MARGIN_MS == 5 * 60 * 1000

QUICK_TTL_MS == 60 * 60 * 1000

NORMAL_TTL_MS == 15 * 60 * 1000

DEFAULT_TTL_MS == 15 * 60 * 1000

Secrets == {"REDDIT_CLIENT_ID", "REDDIT_CLIENT_SECRET", "REDDIT_USERNAME", "REDDIT_PASSWORD"}

Colon == <<":">>

S_search == <<"s", "e", "a", "r", "c", "h">>

S_subreddit == <<"s", "u", "b", "r", "e", "d", "d", "i", "t">>

S_profile == <<"p", "r", "o", "f", "i", "l", "e">>

S_thread == <<"t", "h", "r", "e", "a", "d">>

S_watchlist == <<"w", "a", "t", "c", "h", "l", "i", "s", "t">>

S_cache == <<"c", "a", "c", "h", "e">>

S_check == <<"c", "h", "e", "c", "k">>

S_clear == <<"c", "l", "e", "a", "r">>

S_all == <<"a", "l", "l">>

S_relevance == <<"r", "e", "l", "e", "v", "a", "n", "c", "e">>

S_week == <<"w", "e", "e", "k">>

S_hot == <<"h", "o", "t">>

S_10 == <<"1", "0">>

S_15 == <<"1", "5">>

S_50 == <<"5", "0">>

S_help == <<"h", "e", "l", "p">>

S_list == <<"l", "i", "s", "t">>

S_add == <<"a", "d", "d">>

S_remove == <<"r", "e", "m", "o", "v", "e">>

-----------------------------------------------------------------------------
(* Command-line options: an invocation is a record                          *)
(*   [command, a1, a2, subreddit, sort, time, limit, count, quick]          *)
(* a1, a2 are args[1], args[2]; the others are getOpt()/getFlag() values,   *)
(* Undefined when the option is not given.                                  *)

Or(s, dflt) == IF Falsy(s) THEN dflt ELSE s

searchLimit(a) == parseInt(Or(a.limit, IF a.quick THEN S_10 ELSE S_15))

\* mutant of searchTtl: quick mode ignored
searchTtlNoQuick(a) == NORMAL_TTL_MS

searchTtl(a) == IF a.quick THEN QUICK_TTL_MS ELSE NORMAL_TTL_MS

searchCacheKey(a) ==
    S_search \o Colon \o a.a1 \o Colon \o Or(a.subreddit, S_all) \o Colon
        \o Or(a.sort, S_relevance) \o Colon \o Or(a.time, S_week) \o Colon
        \o NumToString(searchLimit(a))

subredditSort(a) == Or(a.a2, S_hot)

\* api.search: params.set("limit", String(opts.limit || 25)); NaN and 0 are falsy
requestLimit(l) == IF l = NaN \/ l = 0 THEN 25 ELSE l

\* formatResultsTerminal: posts.slice(0, opts.limit || 15)
shownCount(n, l) ==
    LET limit == IF l = NaN \/ l = 0 THEN 15 ELSE l
    IN  IF n < limit THEN n ELSE limit

subredditLimit(a) == parseInt(Or(a.limit, S_15))

subredditCacheKey(a) ==
    S_subreddit \o Colon \o a.a1 \o Colon \o subredditSort(a) \o Colon
        \o Or(a.time, <<>>) \o Colon \o NumToString(subredditLimit(a))

profileCount(a) == parseInt(Or(a.count, S_10))

profileCacheKey(a) ==
    S_profile \o Colon \o a.a1 \o Colon \o NumToString(profileCount(a))

cacheKey(a) ==
    CASE a.command = S_search -> searchCacheKey(a)
      [] a.command = S_subreddit -> subredditCacheKey(a)
      [] a.command = S_profile -> profileCacheKey(a)

-----------------------------------------------------------------------------
(* lib/cache.ts: get(key, params, ttl), set(key, params, value), clear()    *)

Absent == "absent"

EmptyCache == [k \in {} |-> 0]

cacheHas(c, key, ttl, t) == key \in DOMAIN c /\ t - c[key].storedAt <= ttl

cacheGet(c, key, ttl, t) == IF cacheHas(c, key, ttl, t) THEN c[key].value ELSE Absent

cacheSet(c, key, value, t) ==
    [k \in (DOMAIN c) \cup {key} |->
        IF k = key THEN [storedAt |-> t, value |-> value] ELSE c[k]]

cacheClearCount(c) == Cardinality(DOMAIN c)

\* mutant of cacheClear: nothing is removed
cacheClearNothing(c) == c

cacheClear(c) == EmptyCache

-----------------------------------------------------------------------------
(* Inputs of the process model *)

Users == {<<"u">>}

Bodies == {"A"}

ExpiresIn == {60, 600}

NetDelays == {0, 300000}

IdleDelays == {200000, 800000}

\* time between two invocations: inside and beyond the 15-minute TTL
RunGaps == {200000, 1000000}

NoToken == 0

\* process.env: all four secrets, none of them, or one of them absent
Envs == {Secrets, {}} \cup {Secrets \ {x} : x \in Secrets}

NoArgs == [command |-> <<>>, a1 |-> Undefined, a2 |-> Undefined, subreddit |-> Undefined,
           sort |-> Undefined, time |-> Undefined, limit |-> Undefined,
           count |-> Undefined, quick |-> FALSE]

Cmd(c, x) == [NoArgs EXCEPT !.command = c, !.a1 = x]

SearchCmds ==
    {[Cmd(S_search, <<"q">>) EXCEPT !.quick = q, !.limit = l] :
        q \in BOOLEAN, l \in {Undefined, S_50}}

SubredditCmds == {Cmd(S_subreddit, <<"s">>)}

ThreadCmds == {[Cmd(S_thread, <<"p">>) EXCEPT !.subreddit = <<"s">>]}

ProfileCmds == {Cmd(S_profile, u) : u \in Users}

WatchlistCmds ==
    {Cmd(S_watchlist, S_check), Cmd(S_watchlist, S_list)}
        \cup {[Cmd(S_watchlist, S_add) EXCEPT !.a2 = x] : x \in {<<"u">>, <<"v">>}}
        \cup {[Cmd(S_watchlist, S_remove) EXCEPT !.a2 = x] : x \in {<<"u">>}}

HelpCmds == {Cmd(S_help, Undefined)}

CacheCmds == {Cmd(S_cache, S_clear)}

Commands ==
    SearchCmds \cup SubredditCmds \cup ThreadCmds \cup ProfileCmds
        \cup WatchlistCmds \cup CacheCmds \cup HelpCmds

FourOps == {S_search, S_subreddit, S_thread, S_profile}

NoResp == [ok |-> FALSE, access_token |-> NoToken, expires_in |-> 0]

NoError == <<>>

NoResponse == [status |-> 0, body |-> ""]

\* data/watchlist.json does not exist; no add / remove command has run
NoFile == [exists |-> FALSE, text |-> <<>>]

NoEdit == [action |-> "none"]

\* a body of the "about" endpoint without data
Malformed == "M"

\* non-success answers of the data endpoints and of the token endpoint
ErrorResponses ==
    {[status |-> 404, body |-> "not found"], [status |-> 429, body |-> "slow down"]}

AuthFailures ==
    {[status |-> 401, body |-> "unauthorized"], [status |-> 429, body |-> "slow down"]}

\* mutant of responseOk: every response counts as a success
responseOkAlways(r) == TRUE

\* response.ok
responseOk(r) == r.status \in 200..299

\* the Error messages, as the parts of their template literals
CredentialsError ==
    <<"Missing Reddit credentials. Set REDDIT_CLIENT_ID, REDDIT_CLIENT_SECRET, REDDIT_USERNAME, REDDIT_PASSWORD">>

\* mutant of AuthError: the server body left out
AuthErrorNoBody(r) == <<"OAuth2 authentication failed: ">>

AuthError(r) == <<"OAuth2 authentication failed: ", r.body>>

\* mutant of ApiError: the status left out
ApiErrorNoStatus(r) == <<"Reddit API error: ", " ", r.body>>

ApiError(r) == <<"Reddit API error: ", r.status, " ", r.body>>

TypeErrorMessage == <<"TypeError: undefined is not an object (evaluating 'u.name')">>

\* identity of a command and its effective parameters
CmdId(a) ==
    IF a.command = S_thread THEN S_thread \o Colon \o a.subreddit \o Colon \o a.a1
    ELSE cacheKey(a)

CmdTtl(a) == IF a.command = S_search THEN searchTtl(a) ELSE DEFAULT_TTL_MS

-----------------------------------------------------------------------------
(* The process: main() and the commands *)

\* mutant of Lookup: the cache is never hit
LookupMiss(a) == Absent

\* the cache lookup of a command: cache.get(cacheKey, "", ttl)
Lookup(a) == cacheGet(cacheDir, cacheKey(a), CmdTtl(a), now)

\* process-local state after exit (and before the first process)
Exited ==
    /\ pc = "idle" /\ args = NoArgs /\ env = {} /\ accessToken = NoToken
    /\ tokenExpiry = 0 /\ stage = "none" /\ idx = 0 /\ tokenOut = NoToken
    /\ served = "none"
    /\ authResp = NoResp /\ body = "none" /\ authCalls = 0 /\ dataCalls = 0
    /\ lastDone = -1 /\ lastStatus = "none" /\ consulted = FALSE
    /\ wasFresh = FALSE /\ reported = -1
    /\ error = NoError /\ response = NoResponse /\ attempts = <<>>
    /\ inflight = {}

unchangedPure ==
    UNCHANGED <<storeVars, keyVars, treeVars, shapeVars, listVars, watchVars>>

\* time passes between two invocations of the CLI
Idle(d) ==
    /\ pc = "idle" /\ runs > 0 /\ runs < MaxRuns
    /\ now + d <= MaxTime
    /\ now' = now + d
    /\ UNCHANGED <<runs, pc, args, env, accessToken, tokenExpiry, cacheDir, watchlist,
                   stage, idx, tokenOut, served, authResp, body, authCalls, dataCalls,
                   lastDone, lastStatus, consulted, wasFresh, okAt, reported>>
    /\ UNCHANGED callVars
    /\ UNCHANGED inflight
    /\ unchangedPure

\* a process starts: module state of lib/api.ts is initialised, main() dispatches
main(a, e) ==
    /\ pc = "idle" /\ runs < MaxRuns
    /\ runs' = runs + 1
    /\ args' = a /\ env' = e
    /\ accessToken' = NoToken /\ tokenExpiry' = 0
    /\ pc' = CASE a.command = S_search -> "cmdSearch"
               [] a.command = S_subreddit -> "cmdSubreddit"
               [] a.command = S_thread -> "cmdThread"
               [] a.command = S_profile -> "cmdProfile"
               [] a.command = S_watchlist -> "cmdWatchlist"
               [] a.command = S_cache -> "cmdCache"
               [] a.command = S_help -> "usage"
    /\ wasFresh' = /\ a.command \in FourOps
                   /\ CmdId(a) \in DOMAIN okAt
                   /\ now - okAt[CmdId(a)] < CmdTtl(a)
    /\ UNCHANGED <<now, cacheDir, watchlist, stage, idx, tokenOut, served, authResp, body,
                   authCalls, dataCalls, lastDone, lastStatus, consulted, okAt, reported>>
    /\ UNCHANGED callVars
    /\ UNCHANGED inflight
    /\ unchangedPure

\* cmdSearch, cmdSubreddit, cmdProfile: cache first, API on a miss
cmdCached(name, st) ==
    /\ pc = name
    /\ consulted' = TRUE
    /\ IF Lookup(args) # Absent
       THEN /\ pc' = "done" /\ body' = Lookup(args) /\ stage' = stage
       ELSE /\ pc' = "getToken" /\ stage' = st /\ body' = body
    /\ UNCHANGED <<now, runs, args, env, accessToken, tokenExpiry, cacheDir, watchlist,
                   idx, tokenOut, served, authResp, authCalls, dataCalls, lastDone, lastStatus,
                   wasFresh, okAt, reported>>
    /\ UNCHANGED callVars
    /\ UNCHANGED inflight
    /\ unchangedPure

cmdSearch == cmdCached("cmdSearch", "search")

cmdSubreddit == cmdCached("cmdSubreddit", "subreddit")

cmdProfile == cmdCached("cmdProfile", "about")

\* cmdThread: api.thread() is called directly
cmdThread ==
    /\ pc = "cmdThread"
    /\ pc' = "getToken" /\ stage' = "thread"
    /\ UNCHANGED <<now, runs, args, env, accessToken, tokenExpiry, cacheDir, watchlist,
                   idx, tokenOut, served, authResp, body, authCalls, dataCalls, lastDone,
                   lastStatus, consulted, wasFresh, okAt, reported>>
    /\ UNCHANGED callVars
    /\ UNCHANGED inflight
    /\ unchangedPure

\* cmdWatchlist, action "check": the loop over wl.users starts
cmdWatchlist ==
    /\ pc = "cmdWatchlist" /\ args.a1 = S_check
    /\ idx' = 1
    /\ IF Len(watchlist) = 0
       THEN pc' = "done" /\ stage' = stage /\ attempts' = attempts
       ELSE /\ pc' = "getToken" /\ stage' = "about"
            /\ attempts' = Append(attempts, watchlist[1])
    /\ UNCHANGED <<now, runs, args, env, accessToken, tokenExpiry, cacheDir, watchlist,
                   tokenOut, served, authResp, body, authCalls, dataCalls, lastDone,
                   lastStatus, consulted, wasFresh, okAt, reported, error, response>>
    /\ UNCHANGED inflight
    /\ unchangedPure

\* cmdWatchlist, action "list": the watchlist is printed
watchlistList ==
    /\ pc = "cmdWatchlist" /\ args.a1 = S_list
    /\ pc' = "done"
    /\ UNCHANGED <<now, runs, args, env, accessToken, tokenExpiry, cacheDir, watchlist,
                   stage, idx, tokenOut, served, authResp, body, authCalls, dataCalls,
                   lastDone, lastStatus, consulted, wasFresh, okAt, reported>>
    /\ UNCHANGED callVars
    /\ UNCHANGED inflight
    /\ unchangedPure

\* cmdWatchlist, action "add": pushed and saved unless already there
watchlistAdd ==
    /\ pc = "cmdWatchlist" /\ args.a1 = S_add /\ ~Falsy(args.a2)
    /\ watchlist' = IF \E i \in 1..Len(watchlist) : watchlist[i] = args.a2
                     THEN watchlist ELSE Append(watchlist, args.a2)
    /\ pc' = "done"
    /\ UNCHANGED <<now, runs, args, env, accessToken, tokenExpiry, cacheDir,
                   stage, idx, tokenOut, served, authResp, body, authCalls, dataCalls,
                   lastDone, lastStatus, consulted, wasFresh, okAt, reported>>
    /\ UNCHANGED callVars
    /\ UNCHANGED inflight
    /\ unchangedPure

\* cmdWatchlist, action "remove": filtered and saved
watchlistRemove ==
    /\ pc = "cmdWatchlist" /\ args.a1 = S_remove /\ ~Falsy(args.a2)
    /\ watchlist' = SelectSeq(watchlist, LAMBDA u : u # args.a2)
    /\ pc' = "done"
    /\ UNCHANGED <<now, runs, args, env, accessToken, tokenExpiry, cacheDir,
                   stage, idx, tokenOut, served, authResp, body, authCalls, dataCalls,
                   lastDone, lastStatus, consulted, wasFresh, okAt, reported>>
    /\ UNCHANGED callVars
    /\ UNCHANGED inflight
    /\ unchangedPure

\* main(): help prints the usage text, process.exit(0)
usage ==
    /\ pc = "usage"
    /\ pc' = "done"
    /\ UNCHANGED <<now, runs, args, env, accessToken, tokenExpiry, cacheDir, watchlist,
                   stage, idx, tokenOut, served, authResp, body, authCalls, dataCalls,
                   lastDone, lastStatus, consulted, wasFresh, okAt, reported>>
    /\ UNCHANGED callVars
    /\ UNCHANGED inflight
    /\ unchangedPure

\* cmdCache, action "clear"
cmdCache ==
    /\ pc = "cmdCache" /\ args.a1 = S_clear
    /\ reported' = cacheClearCount(cacheDir)
    /\ cacheDir' = cacheClear(cacheDir)
    /\ pc' = "done"
    /\ UNCHANGED <<now, runs, args, env, accessToken, tokenExpiry, watchlist, stage,
                   idx, tokenOut, served, authResp, body, authCalls, dataCalls, lastDone,
                   lastStatus, consulted, wasFresh, okAt>>
    /\ UNCHANGED callVars
    /\ UNCHANGED inflight
    /\ unchangedPure

-----------------------------------------------------------------------------
(* lib/api.ts: getToken, apiGet and the four operations *)

\* mutant of getCredentials: only the client id is required
getCredentialsOnlyId(e) == "REDDIT_CLIENT_ID" \in e

getCredentials(e) == Secrets \subseteq e

\* mutants of tokenValid: the 5-minute buffer dropped; the comparison flipped
tokenValidNoMargin == accessToken # NoToken /\ now < tokenExpiry

tokenValidFlipped == accessToken # NoToken /\ now > tokenExpiry - TOKEN_MARGIN_MS

tokenValid == accessToken # NoToken /\ now < tokenExpiry - TOKEN_MARGIN_MS

\* mutant of newExpiry: expires_in taken as milliseconds
newExpirySeconds(t, expires_in) == t + expires_in

newExpiry(t, expires_in) == t + expires_in * 1000

AuthResponses ==
    {[ok |-> TRUE, status |-> 200, body |-> "", expires_in |-> x] : x \in ExpiresIn}
        \cup {[ok |-> FALSE, status |-> f.status, body |-> f.body, expires_in |-> 0] :
                f \in AuthFailures}

\* answers of a data endpoint; the malformed body is offered to the "about"
\* request only
DataResponses(st) ==
    {[status |-> 200, body |-> b] : b \in Bodies}
        \cup (IF st = "about" THEN {[status |-> 200, body |-> Malformed]} ELSE {})
        \cup ErrorResponses

\* getToken() up to its first await: cached token, missing credentials, or the
\* POST to the token endpoint is issued
getToken ==
    /\ pc = "getToken"
    /\ IF tokenValid
       THEN /\ pc' = "gotToken" /\ tokenOut' = accessToken /\ served' = "cache"
            /\ authCalls' = authCalls /\ error' = error
            /\ inflight' = inflight
       ELSE IF ~getCredentials(env)
       THEN /\ pc' = "threw" /\ authCalls' = authCalls
            /\ error' = CredentialsError
            /\ UNCHANGED <<tokenOut, served, inflight, watchVars>>
       ELSE /\ pc' = "authWait" /\ authCalls' = authCalls + 1
            /\ error' = error
            /\ inflight' = inflight \cup {"auth"}
            /\ UNCHANGED <<tokenOut, served>>
    /\ UNCHANGED <<now, runs, args, env, accessToken, tokenExpiry, cacheDir, watchlist,
                   stage, idx, authResp, body, dataCalls, lastDone, lastStatus,
                   consulted, wasFresh, okAt, reported, response, attempts>>
    /\ unchangedPure

\* the token endpoint answers after d ms; the server issues a new token string
\* (numbered by the request) that lives r.expires_in seconds
authResponse(r, d) ==
    /\ pc = "authWait"
    /\ now + d <= MaxTime
    /\ now' = now + d
    /\ inflight' = inflight \ {"auth"}
    /\ IF r.ok
       THEN /\ authResp' = [ok |-> TRUE, access_token |-> authCalls,
                            expires_in |-> r.expires_in]
            /\ accessToken' = authCalls
            /\ tokenExpiry' = newExpiry(now', r.expires_in)
            /\ tokenOut' = authCalls /\ served' = "auth"
            /\ pc' = "gotToken"
            /\ UNCHANGED <<error, response>>
       ELSE /\ authResp' = NoResp
            /\ UNCHANGED <<accessToken, tokenExpiry, tokenOut, served>>
            /\ response' = [status |-> r.status, body |-> r.body]
            /\ error' = AuthError(r)
            /\ pc' = "threw"
    /\ UNCHANGED <<runs, args, env, cacheDir, watchlist, stage, idx, body, authCalls,
                   dataCalls, lastDone, lastStatus, consulted, wasFresh, okAt, reported,
                   attempts>>
    /\ unchangedPure

\* mutant of requestsOf: profile() sends both of its requests at once
requestsOfBoth(st) == IF st = "about" THEN {"about", "submitted"} ELSE {st}

\* the requests one apiGet call sends: a single GET for its endpoint
requestsOf(st) == {st}

\* apiGet: the GET to the data endpoint is issued with the token
fetch ==
    /\ pc = "gotToken"
    /\ pc' = "fetchWait"
    /\ dataCalls' = dataCalls + 1
    /\ inflight' = inflight \cup requestsOf(stage)
    /\ UNCHANGED <<now, runs, args, env, accessToken, tokenExpiry, cacheDir, watchlist,
                   stage, idx, tokenOut, served, authResp, body, authCalls, lastDone,
                   lastStatus, consulted, wasFresh, okAt, reported>>
    /\ UNCHANGED callVars
    /\ unchangedPure

\* apiGet: the data endpoint answers after d ms; !response.ok throws
fetchResponse(r, d) ==
    /\ pc = "fetchWait"
    /\ now + d <= MaxTime
    /\ now' = now + d
    /\ lastDone' = now'
    /\ inflight' = inflight \ {stage}
    /\ IF responseOk(r)
       THEN /\ pc' = "sleeping" /\ body' = r.body /\ lastStatus' = "ok"
            /\ UNCHANGED <<error, response>>
       ELSE /\ pc' = "threw" /\ body' = body /\ lastStatus' = "error"
            /\ response' = r
            /\ error' = ApiError(r)
    /\ UNCHANGED <<runs, args, env, accessToken, tokenExpiry, cacheDir, watchlist,
                   stage, idx, tokenOut, served, authResp, authCalls, dataCalls, consulted,
                   wasFresh, okAt, reported, attempts>>
    /\ unchangedPure

\* apiGet: await sleep(RATE_DELAY_MS), then return response.json()
sleep ==
    /\ pc = "sleeping"
    /\ now + RATE_DELAY_MS <= MaxTime
    /\ now' = now + RATE_DELAY_MS
    /\ pc' = "apiReturn"
    /\ UNCHANGED <<runs, args, env, accessToken, tokenExpiry, cacheDir, watchlist,
                   stage, idx, tokenOut, served, authResp, body, authCalls, dataCalls,
                   lastDone, lastStatus, consulted, wasFresh, okAt, reported>>
    /\ UNCHANGED callVars
    /\ UNCHANGED inflight
    /\ unchangedPure

\* search() / subreddit() return the mapped posts; the command caches them
listingReturn(st) ==
    /\ pc = "apiReturn" /\ stage = st
    /\ cacheDir' = cacheSet(cacheDir, cacheKey(args), body, now)
    /\ pc' = "done"
    /\ UNCHANGED <<now, runs, args, env, accessToken, tokenExpiry, watchlist, stage,
                   idx, tokenOut, served, authResp, body, authCalls, dataCalls, lastDone,
                   lastStatus, consulted, wasFresh, okAt, reported>>
    /\ UNCHANGED callVars
    /\ UNCHANGED inflight
    /\ unchangedPure

searchReturn == listingReturn("search")

subredditReturn == listingReturn("subreddit")

\* thread() returns post and comments; cmdThread prints them
threadReturn ==
    /\ pc = "apiReturn" /\ stage = "thread"
    /\ pc' = "done"
    /\ UNCHANGED <<now, runs, args, env, accessToken, tokenExpiry, cacheDir, watchlist,
                   stage, idx, tokenOut, served, authResp, body, authCalls, dataCalls,
                   lastDone, lastStatus, consulted, wasFresh, okAt, reported>>
    /\ UNCHANGED callVars
    /\ UNCHANGED inflight
    /\ unchangedPure

\* profile(): the "about" request returned, the "submitted" request follows
\* (const u = userData.data; u.name throws on a body without data)
profileAbout ==
    /\ pc = "apiReturn" /\ stage = "about"
    /\ IF body = Malformed
       THEN pc' = "threw" /\ stage' = stage /\ error' = TypeErrorMessage
       ELSE pc' = "getToken" /\ stage' = "submitted" /\ error' = error
    /\ UNCHANGED <<now, runs, args, env, accessToken, tokenExpiry, cacheDir, watchlist,
                   idx, tokenOut, served, authResp, body, authCalls, dataCalls, lastDone,
                   lastStatus, consulted, wasFresh, okAt, reported, response, attempts>>
    /\ UNCHANGED inflight
    /\ unchangedPure

\* profile() returns to cmdProfile, which caches the result
profileReturn ==
    /\ pc = "apiReturn" /\ stage = "submitted" /\ args.command = S_profile
    /\ cacheDir' = cacheSet(cacheDir, cacheKey(args), body, now)
    /\ pc' = "done"
    /\ UNCHANGED <<now, runs, args, env, accessToken, tokenExpiry, watchlist, stage,
                   idx, tokenOut, served, authResp, body, authCalls, dataCalls, lastDone,
                   lastStatus, consulted, wasFresh, okAt, reported>>
    /\ UNCHANGED callVars
    /\ UNCHANGED inflight
    /\ unchangedPure

\* mutant of nextUser: the loop ends after the first target
nextUserStop == idx' = idx + 1 /\ pc' = "done" /\ stage' = stage /\ attempts' = attempts

\* the for-loop of watchlist check moves to the next user, or ends
nextUser ==
    /\ idx' = idx + 1
    /\ IF idx + 1 > Len(watchlist)
       THEN pc' = "done" /\ stage' = stage /\ attempts' = attempts
       ELSE /\ pc' = "getToken" /\ stage' = "about"
            /\ attempts' = Append(attempts, watchlist[idx + 1])

\* profile() returns to the loop of watchlist check
watchlistReturn ==
    /\ pc = "apiReturn" /\ stage = "submitted" /\ args.command = S_watchlist
    /\ nextUser
    /\ UNCHANGED <<now, runs, args, env, accessToken, tokenExpiry, cacheDir, watchlist,
                   tokenOut, served, authResp, body, authCalls, dataCalls, lastDone,
                   lastStatus, consulted, wasFresh, okAt, reported, error, response>>
    /\ UNCHANGED inflight
    /\ unchangedPure

\* the catch inside the loop of watchlist check
watchlistCatch ==
    /\ pc = "threw" /\ args.command = S_watchlist
    /\ nextUser
    /\ error' = NoError /\ response' = NoResponse
    /\ UNCHANGED <<now, runs, args, env, accessToken, tokenExpiry, cacheDir, watchlist,
                   tokenOut, served, authResp, body, authCalls, dataCalls, lastDone,
                   lastStatus, consulted, wasFresh, okAt, reported>>
    /\ UNCHANGED inflight
    /\ unchangedPure

\* the catch of main(): the error is printed, process.exit(1)
mainCatch ==
    /\ pc = "threw" /\ args.command # S_watchlist
    /\ pc' = "failed"
    /\ UNCHANGED <<now, runs, args, env, accessToken, tokenExpiry, cacheDir, watchlist,
                   stage, idx, tokenOut, served, authResp, body, authCalls, dataCalls,
                   lastDone, lastStatus, consulted, wasFresh, okAt, reported>>
    /\ error' = NoError /\ response' = NoResponse /\ attempts' = attempts
    /\ UNCHANGED inflight
    /\ unchangedPure

\* the process ends; its module state is gone
exit ==
    /\ pc \in {"done", "failed"}
    /\ okAt' = IF pc = "done" /\ args.command \in FourOps /\ dataCalls > 0
               THEN [k \in (DOMAIN okAt) \cup {CmdId(args)} |->
                        IF k = CmdId(args) THEN now ELSE okAt[k]]
               ELSE IF pc = "done" /\ args.command = S_cache THEN EmptyCache
               ELSE okAt
    /\ pc' = "idle" /\ args' = NoArgs /\ env' = {} /\ accessToken' = NoToken
    /\ tokenExpiry' = 0 /\ stage' = "none" /\ idx' = 0 /\ tokenOut' = NoToken
    /\ served' = "none"
    /\ authResp' = NoResp /\ body' = "none" /\ authCalls' = 0 /\ dataCalls' = 0
    /\ lastDone' = -1 /\ lastStatus' = "none" /\ consulted' = FALSE
    /\ wasFresh' = FALSE /\ reported' = -1
    /\ error' = NoError /\ response' = NoResponse /\ attempts' = <<>>
    /\ inflight' = {}
    /\ UNCHANGED <<now, runs, cacheDir, watchlist>>
    /\ unchangedPure

Init ==
    /\ now = 0 /\ runs = 0
    /\ Exited
    /\ cacheDir = EmptyCache
    /\ watchlist = <<(<<"u">>)>>
    /\ okAt = EmptyCache
    /\ got = Absent /\ lastSet = EmptyCache
    /\ inv1 = NoArgs /\ inv2 = NoArgs /\ key1 = <<>> /\ key2 = <<>>
    /\ raw = <<>> /\ comments = <<>>
    /\ first = <<>> /\ post = NoPost
    /\ resp = NoBody /\ result = NoResult
    /\ posts = <<>> /\ given = <<>> /\ metric = "none" /\ out = <<>>
    /\ file = NoFile /\ edit = NoEdit

Next ==
    \/ \E d \in RunGaps : Idle(d)
    \/ \E a \in Commands, e \in Envs : main(a, e)
    \/ cmdSearch
    \/ cmdSubreddit
    \/ cmdProfile
    \/ cmdThread
    \/ cmdWatchlist
    \/ watchlistList
    \/ watchlistAdd
    \/ watchlistRemove
    \/ usage
    \/ cmdCache
    \/ getToken
    \/ \E r \in AuthResponses, d \in NetDelays : authResponse(r, d)
    \/ fetch
    \/ \E r \in DataResponses(stage), d \in NetDelays : fetchResponse(r, d)
    \/ sleep
    \/ searchReturn
    \/ subredditReturn
    \/ threadReturn
    \/ profileAbout
    \/ profileReturn
    \/ watchlistReturn
    \/ watchlistCatch
    \/ mainCatch
    \/ exit

Spec == Init /\ [][Next]_vars

-----------------------------------------------------------------------------
(* Claims about the process model (specification Spec) *)

\* C1: every data request that follows another data request of the same process
\* is issued at least RATE_DELAY_MS after the earlier one completed, whether the
\* earlier one succeeded or failed.  (pc = "fetchWait" is entered at the instant
\* the request is issued; lastDone is the completion time of the previous one.)
C1_PacedAfterEveryRequest ==
    (pc = "fetchWait" /\ lastDone # -1) => now - lastDone >= RATE_DELAY_MS

\* C2 as stated: every token getToken() returns has at least 5 minutes left.
C2_AlwaysFiveMinutesLeft ==
    pc = "gotToken" => now <= tokenExpiry - TOKEN_MARGIN_MS

\* C2 amended: a token served from the cached state has more than 5 minutes
\* left; a token just acquired is returned with exactly expires_in seconds left,
\* which is at least 5 minutes iff expires_in >= 300.
C2_MarginOnCachedToken ==
    pc = "gotToken" =>
        /\ tokenOut = accessToken /\ tokenOut # NoToken
        /\ served = "cache" => now < tokenExpiry - TOKEN_MARGIN_MS
        /\ served = "auth" =>
              /\ tokenExpiry - now = authResp.expires_in * 1000
              /\ (now <= tokenExpiry - TOKEN_MARGIN_MS) <=> (authResp.expires_in >= 300)

C2_Witness ==
    /\ pc = "gotToken" /\ served = "cache" /\ authCalls = 1
    /\ now + RATE_DELAY_MS < tokenExpiry - TOKEN_MARGIN_MS

\* C3: a getToken() call made while a token is cached and now < expiry - 5 min
\* returns that token, leaves the cached token and expiry alone and issues no
\* auth request; a token served from the cache is the one the last successful
\* auth exchange of the process delivered.
C3_TokenReuse ==
    /\ [][(pc = "getToken" /\ accessToken # NoToken
              /\ now < tokenExpiry - TOKEN_MARGIN_MS)
            => (/\ pc' = "gotToken" /\ tokenOut' = accessToken
                /\ authCalls' = authCalls
                /\ accessToken' = accessToken /\ tokenExpiry' = tokenExpiry)]_vars
    /\ []((pc = "gotToken" /\ served = "cache")
            => (authCalls >= 1 /\ authResp.ok /\ tokenOut = authResp.access_token))

\* two getToken() calls (about, submitted) in the window, one auth request
C3_Witness ==
    /\ pc = "gotToken" /\ served = "cache" /\ stage = "submitted"
    /\ authCalls = 1 /\ dataCalls = 1

C5_CacheBeforeNetwork ==
    (args.command \in FourOps /\ authCalls + dataCalls > 0)
        => (consulted /\ ~wasFresh)

\* C15: a non-success status from a data endpoint makes the call fail at the
\* instant the response arrives, with an error carrying the numeric status
\* and the server body; no further request is issued for the call (no retry,
\* no backoff), nothing is mapped or cached, and the error reaches the caller,
\* whose catch ends the command or moves on to the next target.
C15_ApiErrorNoRetry ==
    /\ [][(pc = "fetchWait" /\ lastStatus' = "error")
            => (/\ pc' = "threw"
                /\ ~(response'.status \in 200..299)
                /\ error' = <<"Reddit API error: ", response'.status, " ",
                               response'.body>>
                /\ dataCalls' = dataCalls /\ authCalls' = authCalls
                /\ body' = body /\ cacheDir' = cacheDir
                /\ lastDone' = now')]_vars
    /\ [][pc = "threw"
            => (/\ dataCalls' = dataCalls /\ authCalls' = authCalls /\ now' = now
                /\ cacheDir' = cacheDir
                /\ pc' \in {"failed", "getToken", "done"}
                /\ pc' = "getToken" => idx' = idx + 1)]_vars

\* a 429 on the only data request of the process
C15_Witness ==
    /\ pc = "threw" /\ lastStatus = "error" /\ dataCalls = 1
    /\ response.status = 429 /\ error = <<"Reddit API error: ", 429, " ", "slow down">>

\* C16: a non-success answer of the token endpoint makes getToken() fail with
\* an error carrying the server body; the auth request is not repeated, no data
\* request follows in the calling operation, and the cached token and expiry
\* stay as they were.
C16_AuthFailure ==
    /\ [][(pc = "authWait" /\ pc' # "gotToken")
            => (/\ pc' = "threw"
                /\ ~(response'.status \in 200..299)
                /\ error' = <<"OAuth2 authentication failed: ", response'.body>>
                /\ accessToken' = accessToken /\ tokenExpiry' = tokenExpiry
                /\ authCalls' = authCalls /\ dataCalls' = dataCalls)]_vars
    /\ [][pc = "threw"
            => (/\ accessToken' = accessToken /\ tokenExpiry' = tokenExpiry
                /\ authCalls' = authCalls /\ dataCalls' = dataCalls
                /\ pc' \notin {"authWait", "gotToken", "fetchWait"})]_vars

\* the refresh of a cached token inside the margin failed: the old token stays
C16_Witness ==
    /\ pc = "threw" /\ error = <<"OAuth2 authentication failed: ", "unauthorized">>
    /\ accessToken = 1 /\ authCalls = 2 /\ dataCalls = 1
    /\ now >= tokenExpiry - TOKEN_MARGIN_MS

\* C17: a getToken() call made while one of the four secrets is absent fails
\* with the missing-credentials error and issues no HTTP request; a process
\* with a secret absent never issues one.
C17_CredentialsMissing ==
    /\ [][(pc = "getToken" /\ ~(Secrets \subseteq env))
            => (/\ pc' = "threw"
                /\ error' = CredentialsError
                /\ authCalls' = authCalls /\ dataCalls' = dataCalls)]_vars
    /\ [](~(Secrets \subseteq env) => (authCalls = 0 /\ dataCalls = 0))

\* only the password is absent
C17_Witness ==
    /\ pc = "threw" /\ error = CredentialsError
    /\ env = Secrets \ {"REDDIT_PASSWORD"}
    /\ authCalls = 0 /\ dataCalls = 0

\* C18: watchlist check calls the profile operation for the users of the
\* watchlist in list order, once each; a failure for one user is caught in the
\* loop, so the command never aborts and ends with every user attempted.
C18_CheckEveryUser ==
    (args.command = S_watchlist /\ args.a1 = S_check) =>
        /\ pc # "failed"
        /\ Len(attempts) <= Len(watchlist)
        /\ attempts = SubSeq(watchlist, 1, Len(attempts))
        /\ pc \in {"getToken", "authWait", "gotToken", "fetchWait", "sleeping",
                    "apiReturn", "threw"} => Len(attempts) = idx
        /\ pc = "done" => attempts = watchlist

\* the request for the first user failed, the second user is attempted
C18_Witness ==
    /\ args.command = S_watchlist /\ args.a1 = S_check
    /\ pc = "getToken" /\ idx = 2 /\ Len(watchlist) = 2 /\ attempts = watchlist
    /\ lastStatus = "error" /\ dataCalls = 1

\* helper of C19: help, cache clear, watchlist list / add / remove
LocalCommand(a) ==
    \/ a.command \in {S_help, S_cache}
    \/ a.command = S_watchlist /\ a.a1 \in {S_list, S_add, S_remove}

\* C19: help, cache clear and watchlist list / add / remove never reach
\* getToken (where the credentials are read), issue no HTTP request and never
\* fail, whatever secrets are set; a search, subreddit or profile command whose
\* cache lookup finds a fresh entry ends at once, without getToken and without
\* an HTTP request.
C19_NoNetworkNoCredentials ==
    /\ [](LocalCommand(args)
            => (/\ pc \in {"usage", "cmdCache", "cmdWatchlist", "done"}
                /\ authCalls = 0 /\ dataCalls = 0))
    /\ [][(/\ pc \in {"cmdSearch", "cmdSubreddit", "cmdProfile"}
            /\ cacheGet(cacheDir, cacheKey(args), CmdTtl(args), now) # Absent)
            => (pc' = "done" /\ authCalls' = 0 /\ dataCalls' = 0)]_vars
    /\ []((pc = "done" /\ authCalls = 0 /\ dataCalls = 0) => error = NoError)

\* a search served from the cache by a process without any secret
C19_Witness ==
    /\ pc = "done" /\ env = {} /\ args.command = S_search
    /\ consulted /\ body = "A" /\ authCalls = 0 /\ dataCalls = 0

\* C20: in a search with --quick, whatever other options are given, the limit
\* sent to the API and the number of posts displayed are at most 10.
C20_QuickAtMostTen ==
    (pc = "fetchWait" /\ stage = "search" /\ args.quick) =>
        /\ requestLimit(searchLimit(args)) <= 10
        /\ \A n \in 0..100 : shownCount(n, searchLimit(args)) <= 10

\* helper of C23: the commands whose result is cached
CachedCommand(a) == a.command \in {S_search, S_subreddit, S_profile}

\* C23: the cache changes only by cache clear or by the cache.set that follows
\* the successful return of the operation of a search, subreddit or profile
\* command, which stores the body of a successful response; a failing auth or
\* data request and everything after it leave the cache as it was, so that the
\* failed command still finds no entry and a cache hit is never a failure.
C23_SetOnlyAfterSuccess ==
    /\ [][cacheDir' # cacheDir =>
            \/ pc = "cmdCache"
            \/ /\ pc = "apiReturn" /\ pc' = "done" /\ CachedCommand(args)
               /\ lastStatus = "ok" /\ error = NoError /\ body \in Bodies
               /\ cacheDir' = cacheSet(cacheDir, cacheKey(args), body, now)]_vars
    /\ [][(pc' \in {"threw", "failed"} \/ pc \in {"threw", "failed"})
            => cacheDir' = cacheDir]_vars
    /\ []((pc = "failed" /\ CachedCommand(args)) => Lookup(args) = Absent)
    /\ []((pc = "done" /\ consulted /\ dataCalls = 0) => body \in Bodies)
    /\ [](\A k \in DOMAIN cacheDir : cacheDir[k].value \in Bodies)

\* a profile command whose "submitted" request failed after its "about"
\* request succeeded: the entry of the earlier process is still there, none
\* was added
C23_Witness ==
    /\ pc = "failed" /\ runs = 2 /\ args.command = S_profile
    /\ dataCalls = 2 /\ lastStatus = "error"
    /\ Cardinality(DOMAIN cacheDir) = 1 /\ cacheKey(args) \notin DOMAIN cacheDir

\* C24: at most one HTTP request is in flight at any instant; a request is
\* issued only when none is in flight, the auth request from getToken and the
\* data request after getToken has resolved; the pacing delay runs with no
\* request in flight; profile() issues "submitted" only after "about" succeeded
\* and RATE_DELAY_MS have passed since, and never after a failed "about";
\* watchlist check calls api.profile for the next user only when the call for
\* the previous one has returned or thrown.
C24_OneRequestAtATime ==
    /\ [](Cardinality(inflight) <= 1)
    /\ [][inflight' \ inflight # {} =>
            /\ inflight = {}
            /\ IF "auth" \in inflight'
               THEN pc = "getToken"
               ELSE pc = "gotToken" /\ tokenOut # NoToken /\ inflight' = {stage}]_vars
    /\ [](pc = "sleeping" => (inflight = {} /\ lastStatus = "ok"))
    /\ [][("submitted" \in inflight' /\ "submitted" \notin inflight) =>
            /\ lastStatus = "ok" /\ dataCalls >= 1
            /\ now >= lastDone + RATE_DELAY_MS]_vars
    /\ [][(stage' = "submitted" /\ stage # "submitted") =>
            (pc = "apiReturn" /\ stage = "about" /\ lastStatus = "ok")]_vars
    /\ [][Len(attempts') > Len(attempts) =>
            /\ inflight = {}
            /\ \/ pc = "cmdWatchlist" /\ attempts = <<>>
               \/ pc = "apiReturn" /\ stage = "submitted"
               \/ pc = "threw"]_vars

\* watchlist check with two users: the first failed at the auth request, the
\* "submitted" request of the second is the only one in flight
C24_Witness ==
    /\ pc = "fetchWait" /\ args.command = S_watchlist
    /\ Len(attempts) = 2 /\ authCalls = 2 /\ dataCalls = 2
    /\ inflight = {"submitted"}

-----------------------------------------------------------------------------
(* The cache store as cmdSearch uses it (specification SpecCache):          *)
(* cache.get(cacheKey, "", ttl), cache.set(cacheKey, "", posts) and         *)
(* cache.clear(), at arbitrary times                                        *)

Values == {"A", "B"}

\* the searches whose entries are stored and looked up: a normal search with
\* --limit 10 and a quick search share a key
StoreCmds ==
    {[Cmd(S_search, <<"q">>) EXCEPT !.quick = q, !.limit = l] :
        q \in BOOLEAN, l \in {Undefined, S_10}}

frameStore ==
    UNCHANGED <<runs, env, accessToken, tokenExpiry, watchlist, stage, idx, tokenOut,
                served, authResp, body, authCalls, dataCalls, lastDone, lastStatus,
                consulted, wasFresh, okAt, keyVars, treeVars, shapeVars, callVars, listVars, inflight, watchVars>>

cache_set(a, v) ==
    /\ pc \in {"store", "set", "get", "clear"}
    /\ cacheDir' = cacheSet(cacheDir, searchCacheKey(a), v, now)
    /\ lastSet' = [k \in (DOMAIN lastSet) \cup {searchCacheKey(a)} |->
                      IF k = searchCacheKey(a) THEN [value |-> v, at |-> now]
                      ELSE lastSet[k]]
    /\ pc' = "set" /\ args' = a
    /\ UNCHANGED <<now, got, reported>>
    /\ frameStore

cache_get(a) ==
    /\ pc \in {"store", "set", "get", "clear"}
    /\ got' = cacheGet(cacheDir, searchCacheKey(a), searchTtl(a), now)
    /\ pc' = "get" /\ args' = a
    /\ UNCHANGED <<now, cacheDir, lastSet, reported>>
    /\ frameStore

cache_clear ==
    /\ pc \in {"store", "set", "get", "clear"}
    /\ reported' = cacheClearCount(cacheDir)
    /\ cacheDir' = cacheClear(cacheDir)
    /\ lastSet' = EmptyCache
    /\ pc' = "clear" /\ args' = NoArgs
    /\ UNCHANGED <<now, got>>
    /\ frameStore

elapse(d) ==
    /\ pc \in {"store", "set", "get", "clear"}
    /\ now + d <= MaxTime
    /\ now' = now + d
    /\ pc' = "store"
    /\ UNCHANGED <<args, cacheDir, lastSet, got, reported>>
    /\ frameStore

InitCache ==
    /\ now = 0 /\ runs = 0
    /\ pc = "store" /\ args = NoArgs /\ env = {} /\ accessToken = NoToken
    /\ tokenExpiry = 0 /\ stage = "none" /\ idx = 0 /\ tokenOut = NoToken
    /\ served = "none"
    /\ authResp = NoResp /\ body = "none" /\ authCalls = 0 /\ dataCalls = 0
    /\ lastDone = -1 /\ lastStatus = "none" /\ consulted = FALSE
    /\ wasFresh = FALSE /\ reported = -1
    /\ error = NoError /\ response = NoResponse /\ attempts = <<>>
    /\ inflight = {}
    /\ cacheDir = EmptyCache
    /\ watchlist = <<>>
    /\ okAt = EmptyCache
    /\ got = Absent /\ lastSet = EmptyCache
    /\ inv1 = NoArgs /\ inv2 = NoArgs /\ key1 = <<>> /\ key2 = <<>>
    /\ raw = <<>> /\ comments = <<>>
    /\ first = <<>> /\ post = NoPost
    /\ resp = NoBody /\ result = NoResult
    /\ posts = <<>> /\ given = <<>> /\ metric = "none" /\ out = <<>>
    /\ file = NoFile /\ edit = NoEdit

NextCache ==
    \/ \E a \in StoreCmds, v \in Values : cache_set(a, v)
    \/ \E a \in StoreCmds : cache_get(a)
    \/ cache_clear
    \/ \E d \in IdleDelays : elapse(d)

SpecCache == InitCache /\ [][NextCache]_vars

\* C6: a lookup returns the value last set under its key iff an entry exists and
\* now - storedAt <= the TTL of that lookup (900000 ms for a normal search,
\* 3600000 ms in quick mode), and absent otherwise: an entry stored at T is
\* returned at T + 800000, is absent for a normal search at T + 1000000 and is
\* still returned there by a quick-mode lookup.
C6_CacheTtl ==
    pc = "get" =>
        LET k == searchCacheKey(args)
            ttl == IF args.quick THEN 3600000 ELSE 900000
            age == now - lastSet[k].at
        IN  /\ IF k \in DOMAIN lastSet /\ age <= ttl
               THEN got = lastSet[k].value
               ELSE got = Absent
            /\ (k \in DOMAIN lastSet /\ age = 800000) => got = lastSet[k].value
            /\ (k \in DOMAIN lastSet /\ age = 1000000 /\ ~args.quick) => got = Absent
            /\ (k \in DOMAIN lastSet /\ age = 1000000 /\ args.quick)
                  => got = lastSet[k].value

\* the entry stored at T, read by a quick-mode lookup at T + 1000000
C6_Witness ==
    /\ pc = "get" /\ args.quick
    /\ searchCacheKey(args) \in DOMAIN lastSet
    /\ now - lastSet[searchCacheKey(args)].at = 1000000
    /\ got = lastSet[searchCacheKey(args)].value

\* C8: clear reports the number of distinct keys stored since the previous
\* clear and leaves no entry; a get of a key not set since the last clear
\* returns absent; a clear directly after a clear reports 0.
C8_ClearAll ==
    /\ [][pc' = "clear"
            => (reported' = Cardinality(DOMAIN lastSet) /\ cacheDir' = EmptyCache)]_vars
    /\ [][(pc = "clear" /\ pc' = "clear") => reported' = 0]_vars
    /\ []((pc = "get" /\ searchCacheKey(args) \notin DOMAIN lastSet) => got = Absent)

\* two distinct keys stored, then cleared
C8_Witness == pc = "clear" /\ reported = 2 /\ cacheDir = EmptyCache

-----------------------------------------------------------------------------
(* Cache keys of two invocations (specification SpecKeys) *)

KeyChars == {"a", ":"}

RECURSIVE StringsUpTo(_)
StringsUpTo(n) ==
    IF n = 0 THEN {<<>>}
    ELSE StringsUpTo(n - 1)
            \cup {s \o <<c>> : s \in StringsUpTo(n - 1), c \in KeyChars}

ArgStrings == StringsUpTo(MaxKeyLen) \ {<<>>}

OptStrings == StringsUpTo(MaxKeyLen) \cup {Undefined}

NumberOpts == {Undefined, <<"5">>, <<"5", "a">>, <<"a">>}

\* command lines the three cached commands accept (a1 is required)
SearchInvocations ==
    {[Cmd(S_search, q) EXCEPT !.subreddit = sr, !.limit = l, !.quick = k] :
        q \in ArgStrings, sr \in OptStrings \cup {S_all}, l \in NumberOpts,
        k \in BOOLEAN}

SubredditInvocations ==
    {[Cmd(S_subreddit, n) EXCEPT !.a2 = so, !.limit = l] :
        n \in ArgStrings, so \in OptStrings, l \in {Undefined, <<"5">>}}

ProfileInvocations ==
    {[Cmd(S_profile, u) EXCEPT !.count = c] : u \in ArgStrings, c \in NumberOpts}

Invocations == SearchInvocations \cup SubredditInvocations \cup ProfileInvocations

\* what the command passes to the API: the operation and its parameter tuple
searchParams(a) ==
    <<S_search, a.a1, IF Falsy(a.subreddit) THEN Undefined ELSE a.subreddit,
      Or(a.sort, S_relevance), Or(a.time, S_week), <<searchLimit(a)>> >>

subredditParams(a) ==
    <<S_subreddit, a.a1, subredditSort(a),
      IF Falsy(a.time) THEN Undefined ELSE a.time, <<subredditLimit(a)>> >>

profileParams(a) == <<S_profile, a.a1, <<profileCount(a)>> >>

params(a) ==
    CASE a.command = S_search -> searchParams(a)
      [] a.command = S_subreddit -> subredditParams(a)
      [] a.command = S_profile -> profileParams(a)

frameKeys ==
    UNCHANGED <<now, runs, args, env, accessToken, tokenExpiry, cacheDir, watchlist,
                stage, idx, tokenOut, served, authResp, body, authCalls, dataCalls,
                lastDone, lastStatus, consulted, wasFresh, okAt, reported,
                storeVars, treeVars, shapeVars, callVars, listVars, inflight, watchVars>>

\* both commands build their cacheKey
buildKeys ==
    /\ pc = "args"
    /\ key1' = cacheKey(inv1) /\ key2' = cacheKey(inv2)
    /\ pc' = "keys"
    /\ UNCHANGED <<inv1, inv2>>
    /\ frameKeys

InitKeys ==
    /\ now = 0 /\ runs = 0
    /\ pc = "args" /\ args = NoArgs /\ env = {} /\ accessToken = NoToken
    /\ tokenExpiry = 0 /\ stage = "none" /\ idx = 0 /\ tokenOut = NoToken
    /\ served = "none"
    /\ authResp = NoResp /\ body = "none" /\ authCalls = 0 /\ dataCalls = 0
    /\ lastDone = -1 /\ lastStatus = "none" /\ consulted = FALSE
    /\ wasFresh = FALSE /\ reported = -1
    /\ error = NoError /\ response = NoResponse /\ attempts = <<>>
    /\ inflight = {}
    /\ cacheDir = EmptyCache
    /\ watchlist = <<>>
    /\ okAt = EmptyCache
    /\ got = Absent /\ lastSet = EmptyCache
    /\ inv1 \in Invocations /\ inv2 \in Invocations
    /\ key1 = <<>> /\ key2 = <<>>
    /\ raw = <<>> /\ comments = <<>>
    /\ first = <<>> /\ post = NoPost
    /\ resp = NoBody /\ result = NoResult
    /\ posts = <<>> /\ given = <<>> /\ metric = "none" /\ out = <<>>
    /\ file = NoFile /\ edit = NoEdit

NextKeys == buildKeys

SpecKeys == InitKeys /\ [][NextKeys]_vars

\* C7: two invocations yield the same cache key iff their operation and
\* effective parameter tuple are the same.
C7_KeysInjective ==
    pc = "keys" => ((key1 = key2) <=> (params(inv1) = params(inv2)))

-----------------------------------------------------------------------------
(* Comment-tree mapping (specification SpecTree)                            *)
(*                                                                          *)
(* A raw node is [kind, id, replies]; replies is                            *)
(*   [tag |-> "absent"]   no replies field                                  *)
(*   [tag |-> "empty"]    replies: ""                                       *)
(*   [tag |-> "listing", children |-> <<raw nodes>>]                        *)
(* The id of a raw node is its path in the payload.  A Comment is           *)
(* [id, depth] or [id, depth, replies]: the replies field exists or not.    *)

Kinds == {"t1", "more"}

NoReplies == {[tag |-> "absent"], [tag |-> "empty"]}

RECURSIVE Size(_), SizeAll(_)
Size(t) ==
    1 + (IF t.replies.tag = "listing" THEN SizeAll(t.replies.children) ELSE 0)

SizeAll(f) == IF f = <<>> THEN 0 ELSE Size(Head(f)) + SizeAll(Tail(f))

\* payload shapes of at most n nodes (ids not yet assigned)
RECURSIVE Shapes(_), ShapeLists(_)
Shapes(n) ==
    {[kind |-> k, replies |-> r] : k \in Kinds, r \in NoReplies}
        \cup {[kind |-> k, replies |-> [tag |-> "listing", children |-> f]] :
                k \in Kinds, f \in ShapeLists(n - 1)}

ShapeLists(n) ==
    IF n = 0 THEN {<<>>}
    ELSE {<<>>}
            \cup UNION {{<<t>> \o f : f \in ShapeLists(n - Size(t))} : t \in Shapes(n)}

RECURSIVE Labelled(_, _)
Labelled(f, path) ==
    [i \in 1..Len(f) |->
        [kind |-> f[i].kind,
         id |-> path \o <<i>>,
         replies |->
            IF f[i].replies.tag = "listing"
            THEN [tag |-> "listing",
                  children |-> Labelled(f[i].replies.children, path \o <<i>>)]
            ELSE f[i].replies]]

Payloads == {Labelled(f, <<>>) : f \in ShapeLists(MaxNodes)}

\* mutant of replyIsComment: the filter on replies dropped
replyIsAnything(c) == TRUE

\* .filter((c) => c.kind === "t1") on the replies of a comment
replyIsComment(c) == c.kind = "t1"

\* mutant of topIsComment: the filter on the comment listing dropped
topIsAnything(c) == TRUE

\* .filter((c) => c.kind === "t1") on the children of the comment listing
topIsComment(c) == c.kind = "t1"

\* mutant of childDepth: the depth is passed on unchanged
childDepthSame(depth) == depth

childDepth(depth) == depth + 1

\* d.replies && d.replies.data && d.replies.data.children
hasChildren(d) == d.replies.tag = "listing"

RECURSIVE parseComment(_, _)
parseComment(r, depth) ==
    IF hasChildren(r)
    THEN LET kept == SelectSeq(r.replies.children, replyIsComment)
         IN  [id |-> r.id, depth |-> depth,
              replies |-> [i \in 1..Len(kept) |->
                              parseComment(kept[i], childDepth(depth))]]
    ELSE [id |-> r.id, depth |-> depth]

\* thread(): the comments of the second listing
threadComments(children) ==
    LET kept == SelectSeq(children, topIsComment)
    IN  [i \in 1..Len(kept) |-> parseComment(kept[i], 0)]

frameTree ==
    UNCHANGED <<now, runs, args, env, accessToken, tokenExpiry, cacheDir, watchlist,
                stage, idx, tokenOut, served, authResp, body, authCalls, dataCalls,
                lastDone, lastStatus, consulted, wasFresh, okAt, reported,
                storeVars, keyVars, shapeVars, callVars, listVars, inflight, watchVars>>

\* thread() maps the body apiGet returned
\* children of the post listing: Thing wrappers of kind t3
RawThreadPost(id) ==
    JObj([kind |-> JStr("t3"),
          data |-> JObj([id |-> JStr(id), title |-> JStr("t"),
                         permalink |-> JStr("/r/s/" \o id)])])

PostListings ==
    {<<RawThreadPost("p1")>>, <<RawThreadPost("p2"), RawThreadPost("p1")>>}

thread ==
    /\ pc = "apiReturn" /\ stage = "thread"
    /\ post' = parsePost(first[1])
    /\ comments' = threadComments(raw)
    /\ pc' = "done"
    /\ UNCHANGED <<raw, first>>
    /\ frameTree

InitTree ==
    /\ now = 0 /\ runs = 0
    /\ pc = "apiReturn" /\ args = NoArgs /\ env = {} /\ accessToken = NoToken
    /\ tokenExpiry = 0 /\ stage = "thread" /\ idx = 0 /\ tokenOut = NoToken
    /\ served = "none"
    /\ authResp = NoResp /\ body = "none" /\ authCalls = 0 /\ dataCalls = 0
    /\ lastDone = -1 /\ lastStatus = "none" /\ consulted = FALSE
    /\ wasFresh = FALSE /\ reported = -1
    /\ error = NoError /\ response = NoResponse /\ attempts = <<>>
    /\ inflight = {}
    /\ cacheDir = EmptyCache
    /\ watchlist = <<>>
    /\ okAt = EmptyCache
    /\ got = Absent /\ lastSet = EmptyCache
    /\ inv1 = NoArgs /\ inv2 = NoArgs /\ key1 = <<>> /\ key2 = <<>>
    /\ raw \in Payloads
    /\ comments = <<>>
    /\ first \in PostListings /\ post = NoPost
    /\ resp = NoBody /\ result = NoResult
    /\ posts = <<>> /\ given = <<>> /\ metric = "none" /\ out = <<>>
    /\ file = NoFile /\ edit = NoEdit

NextTree == thread

SpecTree == InitTree /\ [][NextTree]_vars

\* helpers of the claims
Replies(c) == IF "replies" \in DOMAIN c THEN c.replies ELSE <<>>

Children(r) == IF r.replies.tag = "listing" THEN r.replies.children ELSE <<>>

RECURSIVE DepthsFrom(_, _)
DepthsFrom(cs, d) ==
    \A i \in 1..Len(cs) : cs[i].depth = d /\ DepthsFrom(Replies(cs[i]), d + 1)

RECURSIVE AllComments(_)
AllComments(cs) ==
    UNION {{cs[i]} \cup AllComments(Replies(cs[i])) : i \in 1..Len(cs)}

RECURSIVE CountComments(_)
CountComments(cs) ==
    IF cs = <<>> THEN 0
    ELSE 1 + CountComments(Replies(Head(cs))) + CountComments(Tail(cs))

\* ids of the raw t1 nodes reached from the listing through t1 nodes only
RECURSIVE ReachableT1(_)
ReachableT1(rs) ==
    UNION {IF rs[i].kind = "t1" THEN {rs[i].id} \cup ReachableT1(Children(rs[i]))
           ELSE {} : i \in 1..Len(rs)}

Last(s) == s[Len(s)]

\* siblings in payload order, each directly below its parent
RECURSIVE InOrder(_, _)
InOrder(cs, parent) ==
    /\ \A i \in 1..Len(cs) :
          /\ Len(cs[i].id) = Len(parent) + 1
          /\ SubSeq(cs[i].id, 1, Len(parent)) = parent
          /\ InOrder(Replies(cs[i]), cs[i].id)
    /\ \A i, j \in 1..Len(cs) : i < j => Last(cs[i].id) < Last(cs[j].id)

\* C9: every top-level comment has depth 0 and every reply of a comment of
\* depth d has depth d + 1.
C9_DepthByNesting == pc = "done" => DepthsFrom(comments, 0)

\* a forest with comments at depths 0, 1 and 2
C9_Witness ==
    /\ pc = "done"
    /\ \E c \in AllComments(comments) : c.depth = 2
    /\ \E c \in AllComments(comments) : c.depth = 1

\* C10: the comments are exactly the raw t1 nodes reachable through replies
\* listings of t1 nodes, one Comment each, none for a placeholder, siblings in
\* payload order.
C10_ExactlyT1InOrder ==
    pc = "done" =>
        /\ {c.id : c \in AllComments(comments)} = ReachableT1(raw)
        /\ CountComments(comments) = Cardinality(ReachableT1(raw))
        /\ InOrder(comments, <<>>)

\* three levels, the deepest a single placeholder: comments at depths 0 and 1
C10_Witness ==
    /\ pc = "done"
    /\ Len(raw) = 1 /\ raw[1].kind = "t1"
    /\ Len(Children(raw[1])) = 1 /\ Children(raw[1])[1].kind = "t1"
    /\ Len(Children(Children(raw[1])[1])) = 1
    /\ Children(Children(raw[1])[1])[1].kind = "more"
    /\ {c.depth : c \in AllComments(comments)} = {0, 1}
    /\ CountComments(comments) = 2

\* C12: thread() returns one Post, mapped from the first child of the first
\* listing, and one depth-0 Comment per t1 child of the second listing, in
\* server order; children of any other kind contribute no comment.
C12_ThreadUnwrap ==
    pc = "done" =>
        LET t1s == SelectSeq(raw, LAMBDA c : c.kind = "t1")
        IN  /\ post # TypeError
            /\ post.id = first[1].v.data.v.id
            /\ post.post_url = JStr("https://reddit.com" \o first[1].v.data.v.permalink.v)
            /\ Len(comments) = Len(t1s)
            /\ \A i \in 1..Len(comments) :
                  comments[i].id = t1s[i].id /\ comments[i].depth = 0

\* one post child; two t1 children and one other child in the second listing
C12_Witness ==
    /\ pc = "done"
    /\ Len(first) = 1 /\ post.id = JStr("p1")
    /\ Len(raw) = 3
    /\ Cardinality({i \in 1..3 : raw[i].kind = "t1"}) = 2
    /\ Len(comments) = 2 /\ \A i \in 1..2 : comments[i].depth = 0

\* C11: no Comment carries a present-but-empty replies list: a raw comment
\* without qualifying (t1) replies maps to a Comment without a replies field.
C11_NoEmptyReplies ==
    pc = "done" =>
        \A c \in AllComments(comments) : "replies" \in DOMAIN c => c.replies # <<>>

-----------------------------------------------------------------------------
(* Post mapping (specification SpecPost): parsePost on one raw post *)

\* the object without the fields whose value is undefined
Present(all) == [f \in {g \in DOMAIN all : all[g] # JUndef} |-> all[f]]

RawPostData ==
    {JObj(Present([id |-> JStr("p1"), subreddit |-> JStr("s"),
                   created_utc |-> JNum(1), title |-> ti, selftext |-> se,
                   author |-> au, url |-> ur, permalink |-> pe, ups |-> up,
                   num_comments |-> nc, score |-> sc, over_18 |-> ov])) :
        ti \in {JUndef, JStr(""), JStr("t")},
        se \in {JUndef, JStr("s")},
        au \in {JUndef, JStr(""), JStr("a")},
        ur \in {JUndef, JStr("https://x")},
        pe \in {JUndef, JStr("/r/s/p1")},
        up \in {JUndef, JNum(0), JNum(5)},
        nc \in {JUndef, JNum(3)},
        sc \in {JUndef, JNum(7)},
        ov \in {JUndef, JBool(FALSE), JBool(TRUE)}}

\* a Thing wrapper {kind, data} or the unwrapped data object
RawPosts == RawPostData \cup {JObj([kind |-> JStr("t3"), data |-> d]) : d \in RawPostData}

framePost ==
    UNCHANGED <<now, runs, args, env, accessToken, tokenExpiry, cacheDir, watchlist,
                stage, idx, tokenOut, served, authResp, body, authCalls, dataCalls,
                lastDone, lastStatus, consulted, wasFresh, okAt, reported,
                storeVars, keyVars, raw, comments, shapeVars, callVars, listVars, inflight, watchVars>>

\* .map((c) => parsePost(c)) on one child
mapPost ==
    /\ pc = "child"
    /\ post' = parsePost(first[1])
    /\ pc' = "mapped"
    /\ UNCHANGED first
    /\ framePost

InitPost ==
    /\ now = 0 /\ runs = 0
    /\ pc = "child" /\ args = NoArgs /\ env = {} /\ accessToken = NoToken
    /\ tokenExpiry = 0 /\ stage = "none" /\ idx = 0 /\ tokenOut = NoToken
    /\ served = "none"
    /\ authResp = NoResp /\ body = "none" /\ authCalls = 0 /\ dataCalls = 0
    /\ lastDone = -1 /\ lastStatus = "none" /\ consulted = FALSE
    /\ wasFresh = FALSE /\ reported = -1
    /\ error = NoError /\ response = NoResponse /\ attempts = <<>>
    /\ inflight = {}
    /\ cacheDir = EmptyCache
    /\ watchlist = <<>>
    /\ okAt = EmptyCache
    /\ got = Absent /\ lastSet = EmptyCache
    /\ inv1 = NoArgs /\ inv2 = NoArgs /\ key1 = <<>> /\ key2 = <<>>
    /\ raw = <<>> /\ comments = <<>>
    /\ first \in {<<r>> : r \in RawPosts} /\ post = NoPost
    /\ resp = NoBody /\ result = NoResult
    /\ posts = <<>> /\ given = <<>> /\ metric = "none" /\ out = <<>>
    /\ file = NoFile /\ edit = NoEdit

NextPost == mapPost

SpecPost == InitPost /\ [][NextPost]_vars

\* helpers of the claim: the data object of a raw post, and the Post field
\* each defaulted raw field goes to with its default
DataOf(r) == IF "data" \in DOMAIN r.v THEN r.v.data ELSE r

Defaulted ==
    {<<"title", "title", JStr("")>>, <<"selftext", "selftext", JStr("")>>,
     <<"author", "author", JStr("[deleted]")>>, <<"ups", "upvotes", JNum(0)>>,
     <<"num_comments", "num_comments", JNum(0)>>, <<"score", "score", JNum(0)>>,
     <<"over_18", "over_18", JBool(FALSE)>>}

\* C13 as stated: each defaulted field is the raw value when the raw post has
\* the field and its default when it has not, whether the raw post is wrapped
\* or not; post_url is "https://reddit.com" followed by the permalink and is
\* never the upstream url.
C13_PresentCopiedMissingDefault ==
    pc = "mapped" =>
        LET d == DataOf(first[1])
        IN  /\ \A m \in Defaulted :
                  post[m[2]] = IF m[1] \in DOMAIN d.v THEN d.v[m[1]] ELSE m[3]
            /\ "permalink" \in DOMAIN d.v
                  => post.post_url = JStr("https://reddit.com" \o d.v.permalink.v)
            /\ "url" \in DOMAIN d.v => post.post_url # d.v.url

\* C13 amended: a field that is missing or present with a falsy value ("", 0,
\* false) yields the default, so an empty-string author becomes "[deleted]";
\* every other present value is copied; post_url is "https://reddit.com"
\* followed by the permalink ("undefined" when there is none).
C13_TruthyCopiedElseDefault ==
    pc = "mapped" =>
        LET d == DataOf(first[1])
        IN  /\ \A m \in Defaulted :
                  post[m[2]] = IF m[1] \in DOMAIN d.v /\ Truthy(d.v[m[1]])
                               THEN d.v[m[1]] ELSE m[3]
            /\ \A m \in Defaulted :
                  (m[1] \in DOMAIN d.v /\ m[1] # "author") => post[m[2]] = d.v[m[1]]
            /\ post.post_url =
                  JStr("https://reddit.com" \o
                        (IF "permalink" \in DOMAIN d.v THEN d.v.permalink.v
                         ELSE "undefined"))
            /\ "url" \in DOMAIN d.v => post.post_url # d.v.url

\* a wrapped raw post lacking ups, num_comments, over_18 and author
C13_Witness ==
    /\ pc = "mapped"
    /\ "data" \in DOMAIN first[1].v
    /\ DOMAIN first[1].v.data.v \cap {"ups", "num_comments", "over_18", "author"} = {}
    /\ "title" \in DOMAIN first[1].v.data.v /\ post.title = first[1].v.data.v.title
    /\ post.upvotes = JNum(0) /\ post.num_comments = JNum(0)
    /\ post.over_18 = JBool(FALSE) /\ post.author = JStr("[deleted]")

-----------------------------------------------------------------------------
(* Shape of a successful response body (specification SpecShape): what      *)
(* search, subreddit, profile and thread do with the value of               *)
(* response.json()                                                          *)

\* a[i] of a JavaScript array (0-based); undefined out of range
Index(a, i) == IF a.t = "array" /\ i + 1 \in 1..Len(a.v) THEN a.v[i + 1] ELSE JUndef

\* x?.name
OptField(x, name) == IF Nullish(x) THEN JUndef ELSE Field(x, name)

\* (data.data?.children || [])
childrenOrEmpty(data) == OrElse(OptField(Field(data, "data"), "children"), JArr(<<>>))

\* const posts = (data.data?.children || []).map((c) => parsePost(c))
listingPosts(data) ==
    IF Nullish(data) THEN TypeError
    ELSE LET ch == childrenOrEmpty(data)
         IN  IF ch.t # "array" THEN TypeError
             ELSE IF \E i \in 1..Len(ch.v) : Nullish(ch.v[i]) THEN TypeError
             ELSE JArr([i \in 1..Len(ch.v) |-> parsePost(ch.v[i])])

\* const post = parsePost(postListing.data.children[0])
threadPost(postListing) ==
    IF Nullish(postListing) THEN TypeError
    ELSE IF Nullish(Field(postListing, "data")) THEN TypeError
    ELSE IF Nullish(Field(Field(postListing, "data"), "children")) THEN TypeError
    ELSE parsePost(Index(Field(Field(postListing, "data"), "children"), 0))

\* const comments = (commentListing.data?.children || []).filter(..).map(..)
threadCommentList(commentListing) ==
    IF Nullish(commentListing) THEN TypeError
    ELSE LET ch == childrenOrEmpty(commentListing)
         IN  IF ch.t # "array" THEN TypeError
             ELSE JArr(threadComments(ch.v))

\* thread(): data[0], data[1], post, comments
threadResult(data) ==
    IF Nullish(data) THEN TypeError
    ELSE LET p == threadPost(Index(data, 0))
             c == threadCommentList(Index(data, 1))
         IN  IF p = TypeError \/ c = TypeError THEN TypeError
             ELSE JObj([post |-> p, comments |-> c])

\* bodies of a listing endpoint
ChildLists ==
    {JUndef, JNull, JStr("x"), JArr(<<>>), JArr(<<RawThreadPost("p1")>>),
     JArr(<<RawThreadPost("p1"), RawThreadPost("p2")>>), JArr(<<JNull>>)}

Listings ==
    {JObj([kind |-> JStr("Listing")]),
     JObj([kind |-> JStr("Listing"), data |-> JNull])}
        \cup {JObj([kind |-> JStr("Listing"), data |-> JObj(Present([children |-> ch]))]) :
                ch \in ChildLists}

ListingBodies == {JNull, JObj([error |-> JNum(404)])} \cup Listings

\* second listing of a thread body: its children are raw comment nodes
CommentChildLists ==
    {JUndef, JArr(<<>>),
     JArr(Labelled(<<[kind |-> "t1", replies |-> [tag |-> "absent"]],
                     [kind |-> "more", replies |-> [tag |-> "absent"]]>>, <<>>))}

CommentListings ==
    {JObj([kind |-> JStr("Listing")])}
        \cup {JObj([kind |-> JStr("Listing"), data |-> JObj(Present([children |-> ch]))]) :
                ch \in CommentChildLists}

ThreadBodies ==
    {JNull, JObj([error |-> JNum(404)]), JArr(<<>>)}
        \cup {JArr(<<l0>>) : l0 \in Listings}
        \cup {JArr(<<l0, l1>>) : l0 \in Listings, l1 \in CommentListings}

ListingOps == {"search", "subreddit", "submitted"}

frameShape ==
    UNCHANGED <<now, runs, args, env, accessToken, tokenExpiry, cacheDir, watchlist,
                idx, tokenOut, served, authResp, body, authCalls, dataCalls,
                lastDone, lastStatus, consulted, wasFresh, okAt, reported,
                storeVars, keyVars, treeVars, callVars, listVars, inflight, watchVars>>

searchPosts ==
    /\ pc = "apiReturn" /\ stage = "search"
    /\ result' = listingPosts(resp)
    /\ pc' = "done"
    /\ UNCHANGED <<stage, resp>>
    /\ frameShape

subredditPosts ==
    /\ pc = "apiReturn" /\ stage = "subreddit"
    /\ result' = listingPosts(resp)
    /\ pc' = "done"
    /\ UNCHANGED <<stage, resp>>
    /\ frameShape

profilePosts ==
    /\ pc = "apiReturn" /\ stage = "submitted"
    /\ result' = listingPosts(resp)
    /\ pc' = "done"
    /\ UNCHANGED <<stage, resp>>
    /\ frameShape

threadUnwrap ==
    /\ pc = "apiReturn" /\ stage = "thread"
    /\ result' = threadResult(resp)
    /\ pc' = "done"
    /\ UNCHANGED <<stage, resp>>
    /\ frameShape

InitShape ==
    /\ now = 0 /\ runs = 0
    /\ pc = "apiReturn" /\ args = NoArgs /\ env = {} /\ accessToken = NoToken
    /\ tokenExpiry = 0 /\ idx = 0 /\ tokenOut = NoToken
    /\ served = "none"
    /\ authResp = NoResp /\ body = "none" /\ authCalls = 0 /\ dataCalls = 0
    /\ lastDone = -1 /\ lastStatus = "none" /\ consulted = FALSE
    /\ wasFresh = FALSE /\ reported = -1
    /\ error = NoError /\ response = NoResponse /\ attempts = <<>>
    /\ inflight = {}
    /\ cacheDir = EmptyCache
    /\ watchlist = <<>>
    /\ okAt = EmptyCache
    /\ got = Absent /\ lastSet = EmptyCache
    /\ inv1 = NoArgs /\ inv2 = NoArgs /\ key1 = <<>> /\ key2 = <<>>
    /\ raw = <<>> /\ comments = <<>>
    /\ first = <<>> /\ post = NoPost
    /\ \/ stage \in ListingOps /\ resp \in ListingBodies
       \/ stage = "thread" /\ resp \in ThreadBodies
    /\ result = NoResult
    /\ posts = <<>> /\ given = <<>> /\ metric = "none" /\ out = <<>>
    /\ file = NoFile /\ edit = NoEdit

NextShape == searchPosts \/ subredditPosts \/ profilePosts \/ threadUnwrap

SpecShape == InitShape /\ [][NextShape]_vars

\* helpers of the claim: the shapes the claim calls malformed
HasPath(x, f1, f2) ==
    /\ x.t = "object" /\ f1 \in DOMAIN x.v
    /\ x.v[f1].t = "object" /\ f2 \in DOMAIN x.v[f1].v

HasData(x) == x.t = "object" /\ "data" \in DOMAIN x.v /\ ~Nullish(x.v.data)

MalformedListing(b) == ~HasPath(b, "data", "children")

MalformedThread(b) ==
    \/ b.t # "array" \/ Len(b.v) < 2
    \/ ~HasPath(b.v[1], "data", "children")
    \/ b.v[1].v.data.v.children.t # "array"
    \/ b.v[1].v.data.v.children.v = <<>>
    \/ ~HasData(b.v[2])

\* C14: a successful response whose body lacks the expected shape makes the
\* operation fail: a search, subreddit or profile-posts body without
\* data.children, a thread body lacking one of its two listings, a first
\* listing without a child, or a second listing without data, never yields a
\* result.
C14_MalformedIsFailure ==
    pc = "done" =>
        /\ (stage \in ListingOps /\ MalformedListing(resp)) => result = TypeError
        /\ (stage = "thread" /\ MalformedThread(resp)) => result = TypeError

-----------------------------------------------------------------------------
(* List helpers (specification SpecLists): sortBy and dedupe on a Post[] *)

\* posts of the input lists: two ids, so that a list can hold the same id
\* twice, and metrics that order the posts differently
PostPool ==
    {[id |-> i, upvotes |-> u, num_comments |-> n, score |-> 9 - u] :
        i \in {"p1", "p2"}, u \in {0, 7}, n \in {1, 5, 50}}

RECURSIVE ListsUpTo(_)
ListsUpTo(n) ==
    IF n = 0 THEN {<<>>}
    ELSE ListsUpTo(n - 1)
            \cup {Append(l, p) : l \in {k \in ListsUpTo(n - 1) : Len(k) = n - 1},
                                 p \in PostPool}

PostLists == ListsUpTo(MaxPosts)

\* the metric argument; "undefined" takes the default value of the parameter
Metrics == {"undefined", "upvotes", "comments", "score"}

metricOrDefault(m) == IF m = "undefined" THEN "upvotes" ELSE m

compareAscending(a, b, m) ==
    IF m = "upvotes" THEN a.upvotes - b.upvotes
    ELSE IF m = "comments" THEN a.num_comments - b.num_comments
    ELSE a.score - b.score

\* the comparator handed to sort
compare(a, b, m) ==
    IF m = "upvotes" THEN b.upvotes - a.upvotes
    ELSE IF m = "comments" THEN b.num_comments - a.num_comments
    ELSE b.score - a.score

\* Array.prototype.sort with a comparator: stable, x goes before the first
\* element the comparator puts it strictly ahead of
RECURSIVE insertSorted(_, _, _)
insertSorted(x, s, m) ==
    IF s = <<>> THEN <<x>>
    ELSE IF compare(x, Head(s), m) < 0 THEN <<x>> \o s
    ELSE <<Head(s)>> \o insertSorted(x, Tail(s), m)

RECURSIVE arraySort(_, _)
arraySort(s, m) ==
    IF s = <<>> THEN <<>>
    ELSE insertSorted(s[Len(s)], arraySort(SubSeq(s, 1, Len(s) - 1), m), m)

RECURSIVE dedupeFrom(_, _)
dedupeFrom(s, seen) ==
    IF s = <<>> THEN <<>>
    ELSE IF Head(s).id \in seen THEN dedupeFrom(Tail(s), seen)
    ELSE <<Head(s)>> \o dedupeFrom(Tail(s), seen \cup {Head(s).id})

\* keeps every post whose id does not occur later in the list
dedupeKeepLast(s) ==
    SelectSeq([i \in 1..Len(s) |->
                  IF \E j \in (i + 1)..Len(s) : s[j].id = s[i].id
                  THEN [id |-> "dropped"] ELSE s[i]],
              LAMBDA p : p.id # "dropped")

dedupe(s) == dedupeFrom(s, {})

frameLists ==
    UNCHANGED <<now, runs, args, env, accessToken, tokenExpiry, cacheDir, watchlist,
                stage, idx, tokenOut, served, authResp, body, authCalls, dataCalls,
                lastDone, lastStatus, consulted, wasFresh, okAt, reported,
                storeVars, keyVars, treeVars, shapeVars, callVars, inflight, watchVars>>

\* sortBy(posts, metric): [...posts].sort(...) sorts a copy
sortBy ==
    /\ pc = "call"
    /\ out' = arraySort(posts, metricOrDefault(metric))
    /\ pc' = "sorted"
    /\ UNCHANGED <<posts, given, metric>>
    /\ frameLists

\* dedupe(posts): filter builds a new array
dedupePosts ==
    /\ pc = "call"
    /\ out' = dedupe(posts)
    /\ pc' = "deduped"
    /\ UNCHANGED <<posts, given, metric>>
    /\ frameLists

InitLists ==
    /\ now = 0 /\ runs = 0
    /\ pc = "call" /\ args = NoArgs /\ env = {} /\ accessToken = NoToken
    /\ tokenExpiry = 0 /\ stage = "none" /\ idx = 0 /\ tokenOut = NoToken
    /\ served = "none"
    /\ authResp = NoResp /\ body = "none" /\ authCalls = 0 /\ dataCalls = 0
    /\ lastDone = -1 /\ lastStatus = "none" /\ consulted = FALSE
    /\ wasFresh = FALSE /\ reported = -1
    /\ error = NoError /\ response = NoResponse /\ attempts = <<>>
    /\ inflight = {}
    /\ cacheDir = EmptyCache
    /\ watchlist = <<>>
    /\ okAt = EmptyCache
    /\ got = Absent /\ lastSet = EmptyCache
    /\ inv1 = NoArgs /\ inv2 = NoArgs /\ key1 = <<>> /\ key2 = <<>>
    /\ raw = <<>> /\ comments = <<>>
    /\ first = <<>> /\ post = NoPost
    /\ resp = NoBody /\ result = NoResult
    /\ posts \in PostLists /\ given = posts /\ metric \in Metrics /\ out = <<>>
    /\ file = NoFile /\ edit = NoEdit

NextLists == sortBy \/ dedupePosts

SpecLists == InitLists /\ [][NextLists]_vars

\* helpers of the claims
MetricValue(p, m) ==
    IF m \in {"undefined", "upvotes"} THEN p.upvotes
    ELSE IF m = "comments" THEN p.num_comments
    ELSE p.score

Occurrences(s, p) == Cardinality({i \in 1..Len(s) : s[i] = p})

FirstIndex(s, i) == \A j \in 1..(i - 1) : s[j].id # s[i].id

\* C21: sortBy returns a permutation of its input in non-increasing order of
\* the chosen metric (upvotes by default, num_comments for "comments", score
\* otherwise) and leaves the input list as it was.
C21_SortByMetric ==
    pc = "sorted" =>
        /\ Len(out) = Len(given)
        /\ \A p \in PostPool : Occurrences(out, p) = Occurrences(given, p)
        /\ \A i \in 1..(Len(out) - 1) :
              MetricValue(out[i], metric) >= MetricValue(out[i + 1], metric)
        /\ posts = given

\* num_comments [5, 50, 1] sorted by "comments" gives [50, 5, 1]
C21_Witness ==
    /\ pc = "sorted" /\ metric = "comments"
    /\ [i \in 1..Len(given) |-> given[i].num_comments] = <<5, 50, 1>>
    /\ [i \in 1..Len(out) |-> out[i].num_comments] = <<50, 5, 1>>

\* C22: dedupe returns exactly the first occurrence of each post id of its
\* input, in the original relative order, and deduplicating its result again
\* changes nothing.
C22_DedupeFirstOccurrences ==
    pc = "deduped" =>
        /\ out = SelectSeq([i \in 1..Len(given) |->
                               IF FirstIndex(given, i) THEN given[i]
                               ELSE [id |-> "dropped"]],
                           LAMBDA p : p.id # "dropped")
        /\ \A i, j \in 1..Len(out) : i # j => out[i].id # out[j].id
        /\ {out[i].id : i \in 1..Len(out)} = {given[i].id : i \in 1..Len(given)}
        /\ dedupe(out) = out
        /\ posts = given

\* two different posts with the same id, and another id between them
C22_Witness ==
    /\ pc = "deduped"
    /\ Len(given) = 3 /\ given[1].id = given[3].id /\ given[1] # given[3]
    /\ given[2].id # given[1].id
    /\ out = <<given[1], given[2]>>

-----------------------------------------------------------------------------
(* The watchlist file (specification SpecWatch): a series of                *)
(* "watchlist add" and "watchlist remove" commands, one process each.       *)
(* An entry is modelled by its username and note; here strings are TLA+     *)
(* strings, and "" stands for an argument that is missing or empty.         *)

UsernameArgs == {"", "u", "v", "w"}

NoteArgs == {"", "n"}

\* JSON.stringify(wl): the values of the entries, in order
RECURSIVE stringify(_)
stringify(users) ==
    IF users = <<>> THEN <<>>
    ELSE <<Head(users).username, Head(users).note>> \o stringify(Tail(users))

\* JSON.parse(text)
parse(text) ==
    [i \in 1..(Len(text) \div 2) |->
        [username |-> text[2 * i - 1], note |-> text[2 * i]]]

\* wl.users as loadWatchlist() returns it
loadWatchlist(f) == IF ~f.exists THEN <<>> ELSE parse(f.text)

saveWatchlist(users) == [exists |-> TRUE, text |-> stringify(users)]

\* mutant of hasUser: the username is never found
hasUserNever(users, username) == FALSE

\* wl.users.find((u) => u.username === username)
hasUser(users, username) == \E i \in 1..Len(users) : users[i].username = username

\* wl.users.filter((u) => u.username !== username)
withoutUser(users, username) == SelectSeq(users, LAMBDA u : u.username # username)

frameWatch ==
    UNCHANGED <<now, runs, args, env, accessToken, tokenExpiry, cacheDir, watchlist,
                stage, idx, tokenOut, served, authResp, body, authCalls, dataCalls,
                lastDone, lastStatus, consulted, wasFresh, okAt, reported,
                storeVars, keyVars, treeVars, shapeVars, callVars, listVars, inflight>>

\* reddit-search watchlist add <username> [note]
addUser(username, note) ==
    /\ Len(loadWatchlist(file)) < MaxEntries
    /\ edit' = [action |-> "add", username |-> username, note |-> note]
    /\ IF username = ""
       THEN pc' = "failed" /\ file' = file
       ELSE IF hasUser(loadWatchlist(file), username)
       THEN pc' = "already" /\ file' = file
       ELSE /\ pc' = "added"
            /\ file' = saveWatchlist(Append(loadWatchlist(file),
                                            [username |-> username, note |-> note]))
    /\ frameWatch

\* reddit-search watchlist remove <username>
removeUser(username) ==
    /\ edit' = [action |-> "remove", username |-> username, note |-> ""]
    /\ IF username = ""
       THEN pc' = "failed" /\ file' = file
       ELSE /\ pc' = "removed"
            /\ file' = saveWatchlist(withoutUser(loadWatchlist(file), username))
    /\ frameWatch

InitWatch ==
    /\ now = 0 /\ runs = 0
    /\ pc = "shell" /\ args = NoArgs /\ env = {} /\ accessToken = NoToken
    /\ tokenExpiry = 0 /\ stage = "none" /\ idx = 0 /\ tokenOut = NoToken
    /\ served = "none"
    /\ authResp = NoResp /\ body = "none" /\ authCalls = 0 /\ dataCalls = 0
    /\ lastDone = -1 /\ lastStatus = "none" /\ consulted = FALSE
    /\ wasFresh = FALSE /\ reported = -1
    /\ error = NoError /\ response = NoResponse /\ attempts = <<>>
    /\ inflight = {}
    /\ cacheDir = EmptyCache
    /\ watchlist = <<>>
    /\ okAt = EmptyCache
    /\ got = Absent /\ lastSet = EmptyCache
    /\ inv1 = NoArgs /\ inv2 = NoArgs /\ key1 = <<>> /\ key2 = <<>>
    /\ raw = <<>> /\ comments = <<>>
    /\ first = <<>> /\ post = NoPost
    /\ resp = NoBody /\ result = NoResult
    /\ posts = <<>> /\ given = <<>> /\ metric = "none" /\ out = <<>>
    /\ file \in {NoFile, saveWatchlist(<<>>)} /\ edit = NoEdit

NextWatch ==
    \/ \E u \in UsernameArgs, n \in NoteArgs : addUser(u, n)
    \/ \E u \in UsernameArgs : removeUser(u)

SpecWatch == InitWatch /\ [][NextWatch]_vars

\* helper of the claim: the usernames stored in the file, in order
Stored(f) == [i \in 1..Len(loadWatchlist(f)) |-> loadWatchlist(f)[i].username]

\* C25: whatever add and remove commands have run since the watchlist file
\* was absent or held an empty list, no two stored entries carry the same
\* username; adding a username that is stored leaves the file as it is; after
\* removing a username no entry carries it and the other entries are the
\* ones stored before, in the same order.
C25_UniqueUsernames ==
    /\ [](\A i, j \in 1..Len(Stored(file)) :
             i # j => Stored(file)[i] # Stored(file)[j])
    /\ [][(edit'.action = "add"
             /\ \E i \in 1..Len(Stored(file)) : Stored(file)[i] = edit'.username)
            => file' = file]_vars
    /\ [][(edit'.action = "remove" /\ edit'.username # "") =>
            /\ \A i \in 1..Len(Stored(file')) : Stored(file')[i] # edit'.username
            /\ loadWatchlist(file')
                 = SelectSeq(loadWatchlist(file),
                             LAMBDA e : e.username # edit'.username)]_vars

\* three users stored; the second is added again with another note
C25_Witness ==
    /\ pc = "already" /\ edit.action = "add"
    /\ Len(Stored(file)) = 3 /\ Stored(file)[2] = edit.username
    /\ loadWatchlist(file)[2].note # edit.note

====
